---- MODULE Spec2Model ----
(***************************************************************************)
(* Model of pke/base.py: the sentence container, the candidate registry,   *)
(* the candidate generators, the candidate filter and the n-best selector  *)
(* of class LoadFile.                                                      *)
(*                                                                         *)
(* A word is a sequence of one-character strings.  The registry is the     *)
(* insertion-ordered dictionary self.candidates, kept as a sequence of     *)
(* entries, each holding its key and the five fields of Candidate.         *)
(* Python indices are kept 0-based; the slice s[j:k] is SubSeq(s, j+1, k). *)
(***************************************************************************)
EXTENDS Integers, Sequences, FiniteSets, TLC

VARIABLES sentences, candidates, weights, pre, last, fault, ret, warned, steps

vars == <<sentences, candidates, weights, pre, last, fault, ret, warned, steps>>

(***************************************************************************)
(* Bounds of the model.                                                    *)
(***************************************************************************)
MaxTokens == 4
MaxSents == 2
MaxN == 3

(***************************************************************************)
(* Generic helpers.                                                        *)
(***************************************************************************)
Min(a, b) == IF a < b THEN a ELSE b

Max(a, b) == IF a < b THEN b ELSE a

\* Python's s[a:b] for 0 <= a, b <= len(s).
Slice(s, a, b) == SubSeq(s, a + 1, b)

RECURSIVE SumLen(_)
SumLen(ss) == IF ss = <<>> THEN 0 ELSE Len(Head(ss)) + SumLen(Tail(ss))

\* ' '.join(stems): the words' characters with one space between two words.
RECURSIVE Join(_)
Join(ws) ==
    IF ws = <<>> THEN <<>>
    ELSE IF Len(ws) = 1 THEN ws[1]
    ELSE ws[1] \o <<" ">> \o Join(Tail(ws))

(***************************************************************************)
(* Sentence (the attributes set by Sentence.__init__; meta is left out:    *)
(* no generator, filter or selector reads it).                             *)
(***************************************************************************)
Sentence(toks) ==
    [words  |-> [x \in 1..Len(toks) |-> toks[x].w],
     pos    |-> [x \in 1..Len(toks) |-> toks[x].p],
     stems  |-> [x \in 1..Len(toks) |-> toks[x].s],
     length |-> Len(toks)]

\* The number of tokens of a document.
DocLen(sents) == SumLen([x \in 1..Len(sents) |-> sents[x].words])

\* shift = sum([s.length for s in self.sentences[0:i]])
RECURSIVE Shift(_, _)
Shift(sents, i) == IF i = 0 THEN 0 ELSE sents[i].length + Shift(sents, i - 1)

(***************************************************************************)
(* Candidate and add_candidate.                                            *)
(***************************************************************************)
Candidate(k) ==
    [key |-> k, surface_forms |-> <<>>, offsets |-> <<>>,
     sentence_ids |-> <<>>, pos_patterns |-> <<>>, lexical_form |-> <<>>]

Keys(cands) == {cands[x].key : x \in 1..Len(cands)}

IndexOf(cands, k) == CHOOSE x \in 1..Len(cands) : cands[x].key = k

\* self.candidates[k] on the defaultdict: a missing key is inserted.
Lookup(cands, k) == IF k \in Keys(cands) THEN cands ELSE Append(cands, Candidate(k))

\* A registry that keeps one copy of an occurrence: a call repeating the last
\* occurrence of its entry changes nothing.
add_candidate_once(cands, words, stems, posp, offset, sentence_id) ==
    LET lexical_form == Join(stems)
        c1 == Lookup(cands, lexical_form)
        x  == IndexOf(c1, lexical_form)
        n  == Len(c1[x].surface_forms)
    IN  IF /\ n > 0
           /\ c1[x].surface_forms[n] = words
           /\ c1[x].offsets[n] = offset
           /\ c1[x].sentence_ids[n] = sentence_id
        THEN cands
        ELSE [c1 EXCEPT ![x] =
                [key           |-> lexical_form,
                 surface_forms |-> Append(c1[x].surface_forms, words),
                 lexical_form  |-> stems,
                 pos_patterns  |-> Append(c1[x].pos_patterns, posp),
                 offsets       |-> Append(c1[x].offsets, offset),
                 sentence_ids  |-> Append(c1[x].sentence_ids, sentence_id)]]

add_candidate(cands, words, stems, posp, offset, sentence_id) ==
    LET lexical_form == Join(stems)
        c1 == Lookup(cands, lexical_form)
        x  == IndexOf(c1, lexical_form)
    IN  [c1 EXCEPT ![x] =
            [key           |-> lexical_form,
             surface_forms |-> Append(c1[x].surface_forms, words),
             lexical_form  |-> stems,
             pos_patterns  |-> Append(c1[x].pos_patterns, posp),
             offsets       |-> Append(c1[x].offsets, offset),
             sentence_ids  |-> Append(c1[x].sentence_ids, sentence_id)]]

\* The add_candidate call a generator makes for the span [a, b) of sentence i.
SpanCall(sents, i, a, b, offset) ==
    [words |-> Slice(sents[i + 1].words, a, b),
     stems |-> Slice(sents[i + 1].stems, a, b),
     pos   |-> Slice(sents[i + 1].pos, a, b),
     offset |-> offset, sentence_id |-> i]

RECURSIVE ApplyCalls(_, _)
ApplyCalls(cands, calls) ==
    IF calls = <<>> THEN cands
    ELSE ApplyCalls(add_candidate(cands, calls[1].words, calls[1].stems, calls[1].pos,
                                  calls[1].offset, calls[1].sentence_id),
                    Tail(calls))

(***************************************************************************)
(* ngram_selection.                                                        *)
(***************************************************************************)
\* for k in range(j+1, min(j+1+skip, sentence.length+1))
RECURSIVE NgramInner(_, _, _, _, _, _)
NgramInner(sents, i, shift, j, k, kend) ==
    IF k >= kend THEN <<>>
    ELSE <<SpanCall(sents, i, j, k, shift + j)>>
         \o NgramInner(sents, i, shift, j, k + 1, kend)

\* A range end one short: the longest span of every start is lost.
NgramRangeEndShort(j, skip, length) == Min(j + skip, length + 1)

NgramRangeEnd(j, skip, length) == Min(j + 1 + skip, length + 1)

\* for j in range(sentence.length)
RECURSIVE NgramOuter(_, _, _, _, _)
NgramOuter(sents, i, shift, skip, j) ==
    IF j >= sents[i + 1].length THEN <<>>
    ELSE NgramInner(sents, i, shift, j, j + 1,
                    NgramRangeEnd(j, skip, sents[i + 1].length))
         \o NgramOuter(sents, i, shift, skip, j + 1)

\* for i, sentence in enumerate(self.sentences)
RECURSIVE NgramCalls(_, _, _)
NgramCalls(sents, n, i) ==
    IF i >= Len(sents) THEN <<>>
    ELSE NgramOuter(sents, i, Shift(sents, i), Min(n, sents[i + 1].length), 0)
         \o NgramCalls(sents, n, i + 1)

ngram_selection(sents, cands, n) == ApplyCalls(cands, NgramCalls(sents, n, 0))

(***************************************************************************)
(* longest_sequence_selection and its two instantiations.                  *)
(***************************************************************************)
\* The scan without the flush of the run buffer after an emission.
RECURSIVE LongestScanNoFlush(_, _, _, _, _, _, _)
LongestScanNoFlush(sents, i, shift, values, valid_values, j, seq) ==
    IF j >= Len(values) THEN <<>>
    ELSE LET isValid == values[j + 1] \in valid_values
             seq1 == IF isValid THEN Append(seq, j) ELSE seq
         IN  IF isValid /\ j < sents[i + 1].length - 1
             THEN LongestScanNoFlush(sents, i, shift, values, valid_values, j + 1, seq1)
             ELSE LET bias == IF j = sents[i + 1].length - 1 THEN 1 ELSE 0
                      emit == IF seq1 # <<>>
                              THEN <<SpanCall(sents, i, seq1[1], seq1[Len(seq1)] + 1,
                                              shift + j - Len(seq1) + bias)>>
                              ELSE <<>>
                  IN  emit \o LongestScanNoFlush(sents, i, shift, values, valid_values,
                                                 j + 1, seq1)

\* The scan of one sentence from token j on, seq being the run buffer; the
\* result is the sequence of add_candidate calls it makes.
RECURSIVE LongestScan(_, _, _, _, _, _, _)
LongestScan(sents, i, shift, values, valid_values, j, seq) ==
    IF j >= Len(values) THEN <<>>
    ELSE LET isValid == values[j + 1] \in valid_values
             seq1 == IF isValid THEN Append(seq, j) ELSE seq
         IN  IF isValid /\ j < sents[i + 1].length - 1
             THEN LongestScan(sents, i, shift, values, valid_values, j + 1, seq1)
             ELSE LET bias == IF j = sents[i + 1].length - 1 THEN 1 ELSE 0
                      emit == IF seq1 # <<>>
                              THEN <<SpanCall(sents, i, seq1[1], seq1[Len(seq1)] + 1,
                                              shift + j - Len(seq1) + bias)>>
                              ELSE <<>>
                  IN  emit \o LongestScan(sents, i, shift, values, valid_values,
                                          j + 1, <<>>)

\* for i, sentence in enumerate(self.sentences); key(self.sentences[i]) reads
\* the attribute named attr, which raises AttributeError when Sentence has no
\* such attribute.
RECURSIVE LongestLoop(_, _, _, _, _)
LongestLoop(sents, cands, attr, valid_values, i) ==
    IF i >= Len(sents) THEN [cands |-> cands, fault |-> "none"]
    ELSE IF attr \notin DOMAIN sents[i + 1]
         THEN [cands |-> cands, fault |-> "AttributeError"]
         ELSE LongestLoop(sents,
                          ApplyCalls(cands,
                                     LongestScan(sents, i, Shift(sents, i),
                                                 sents[i + 1][attr], valid_values,
                                                 0, <<>>)),
                          attr, valid_values, i + 1)

longest_sequence_selection(sents, cands, attr, valid_values) ==
    LongestLoop(sents, cands, attr, valid_values, 0)

\* key=lambda s: s.pos
longest_pos_sequence_selection(sents, cands, valid_pos) ==
    longest_sequence_selection(sents, cands, "pos", valid_pos)

\* key=lambda s: s.stem
longest_keyword_sequence_selection(sents, cands, keywords) ==
    longest_sequence_selection(sents, cands, "stem", keywords)

(***************************************************************************)
(* Characters and the string methods the filter uses.                      *)
(***************************************************************************)
UpperCase == <<"A", "B", "C", "D", "E", "F", "G", "H", "I", "J", "K", "L", "M",
               "N", "O", "P", "Q", "R", "S", "T", "U", "V", "W", "X", "Y", "Z">>

LowerCase == <<"a", "b", "c", "d", "e", "f", "g", "h", "i", "j", "k", "l", "m",
               "n", "o", "p", "q", "r", "s", "t", "u", "v", "w", "x", "y", "z">>

Digits == {"0", "1", "2", "3", "4", "5", "6", "7", "8", "9"}

\* string.punctuation; the grave accent, which a TLA+ string cannot hold, is
\* the character written "grave".
punctuation ==
    {"!", "\"", "#", "$", "%", "&", "'", "(", ")", "*", "+", ",", "-", ".", "/",
     ":", ";", "<", "=", ">", "?", "@", "[", "\\", "]", "^", "_", "grave", "{", "|",
     "}", "~"}

Whitespace == {" ", "\t", "\n"}

LowerChar(c) ==
    IF \E x \in 1..Len(UpperCase) : UpperCase[x] = c
    THEN LowerCase[CHOOSE x \in 1..Len(UpperCase) : UpperCase[x] = c]
    ELSE c

\* str.lower()
lower(word) == [x \in 1..Len(word) |-> LowerChar(word[x])]

\* set(seq)
Elems(seq) == {seq[x] : x \in 1..Len(seq)}

IsAlnumChar(c) == c \in Elems(UpperCase) \cup Elems(LowerCase) \cup Digits

\* str.isalnum(): at least one character and every character alphanumeric.
isalnum(word) == word # <<>> /\ \A x \in 1..Len(word) : IsAlnumChar(word[x])

\* str.split(): the maximal runs of characters that are not whitespace.
RECURSIVE SplitFrom(_, _)
SplitFrom(str, cur) ==
    IF str = <<>> THEN (IF cur = <<>> THEN <<>> ELSE <<cur>>)
    ELSE IF Head(str) \in Whitespace
         THEN (IF cur = <<>> THEN <<>> ELSE <<cur>>) \o SplitFrom(Tail(str), <<>>)
         ELSE SplitFrom(Tail(str), Append(cur, Head(str)))

split(str) == SplitFrom(str, <<>>)

\* str.replace(old, ''), old not empty: the occurrences of old are dropped,
\* left to right.
RECURSIVE RemoveAll(_, _)
RemoveAll(word, old) ==
    IF Len(word) < Len(old) THEN word
    ELSE IF SubSeq(word, 1, Len(old)) = old
         THEN RemoveAll(SubSeq(word, Len(old) + 1, Len(word)), old)
         ELSE <<Head(word)>> \o RemoveAll(Tail(word), old)

(***************************************************************************)
(* _is_alphanum and candidate_filtering.                                   *)
(***************************************************************************)
\* The default of _is_alphanum's parameter valid_punctuation_marks: '-'.
DefaultValidPunctuationMarks == <<"-">>

\* for punct in valid_punctuation_marks.split(): word = word.replace(punct, '')
RECURSIVE ReplaceEach(_, _)
ReplaceEach(word, puncts) ==
    IF puncts = <<>> THEN word
    ELSE ReplaceEach(RemoveAll(word, Head(puncts)), Tail(puncts))

_is_alphanum(word, valid_punctuation_marks) ==
    isalnum(ReplaceEach(word, split(valid_punctuation_marks)))

\* The argument candidate_filtering hands to _is_alphanum for the punctuation
\* marks: none, the call is self._is_alphanum(w), so the default applies.
AlphanumMarks(cfg) == DefaultValidPunctuationMarks

RemoveKey(cands, k) == SelectSeq(cands, LAMBDA e : e.key # k)

RECURSIVE MinOf(_)
MinOf(ns) == IF Len(ns) = 1 THEN ns[1] ELSE Min(ns[1], MinOf(Tail(ns)))

\* The if/elif chain on one candidate: "del", "keep", or the exception raised.
FilterChain(v, words, cfg) ==
    IF Elems(words) \cap cfg.stoplist # {} THEN "del"
    ELSE IF Elems(v.pos_patterns[1]) \cap cfg.pos_blacklist # {} THEN "del"
    ELSE IF \E x \in 1..Len(words) : Elems(words[x]) \subseteq punctuation THEN "del"
    ELSE IF SumLen(words) < cfg.mininum_length THEN "del"
    ELSE IF words = <<>> THEN "ValueError"
    ELSE IF MinOf([x \in 1..Len(words) |-> Len(words[x])]) < cfg.mininum_word_size
         THEN "del"
    ELSE IF Len(v.lexical_form) > cfg.maximum_word_number THEN "del"
    ELSE "keep"

\* The trailing if: the candidate is still there, only_alphanum is set and
\* some word is not alphanumeric.
FilterAlphanum(words, cfg) ==
    /\ cfg.only_alphanum
    /\ ~ \A x \in 1..Len(words) : _is_alphanum(words[x], AlphanumMarks(cfg))

\* for k in list(self.candidates)
RECURSIVE FilterLoop(_, _, _)
FilterLoop(cands, keys, cfg) ==
    IF keys = <<>> THEN [cands |-> cands, fault |-> "none"]
    ELSE LET k == Head(keys)
             v == cands[IndexOf(cands, k)]
         IN  IF v.surface_forms = <<>> THEN [cands |-> cands, fault |-> "IndexError"]
             ELSE LET words == [x \in 1..Len(v.surface_forms[1]) |->
                                   lower(v.surface_forms[1][x])]
                      chain == FilterChain(v, words, cfg)
                  IN  IF chain = "ValueError" THEN [cands |-> cands, fault |-> chain]
                      ELSE IF chain = "del" \/ FilterAlphanum(words, cfg)
                           THEN FilterLoop(RemoveKey(cands, k), Tail(keys), cfg)
                           ELSE FilterLoop(cands, Tail(keys), cfg)

candidate_filtering(cands, cfg) ==
    FilterLoop(cands, [x \in 1..Len(cands) |-> cands[x].key], cfg)

(***************************************************************************)
(* is_redundant and get_n_best.  Each returns, with its value, the         *)
(* registry as its lookups leave it.                                       *)
(***************************************************************************)
LexicalForm(cands, k) == cands[IndexOf(cands, k)].lexical_form

\* prev = [self.candidates[u].lexical_form for u in prev]
RECURSIVE LookupAll(_, _)
LookupAll(cands, ks) ==
    IF ks = <<>> THEN cands ELSE LookupAll(Lookup(cands, Head(ks)), Tail(ks))

\* A window range one short: the last window of each accepted form is skipped.
WindowRangeShort(prev_candidate, candidate) == Len(prev_candidate) - Len(candidate)

\* range(len(prev_candidate)-len(candidate)+1)
WindowRange(prev_candidate, candidate) == Len(prev_candidate) - Len(candidate) + 1

\* for i in range(...): if candidate == prev_candidate[i:i+len(candidate)]
RECURSIVE WindowLoop(_, _, _, _)
WindowLoop(candidate, prev_candidate, i, iend) ==
    IF i >= iend THEN FALSE
    ELSE IF candidate = Slice(prev_candidate, i, i + Len(candidate)) THEN TRUE
    ELSE WindowLoop(candidate, prev_candidate, i + 1, iend)

\* for prev_candidate in prev
RECURSIVE PrevLoop(_, _)
PrevLoop(candidate, prev) ==
    IF prev = <<>> THEN FALSE
    ELSE IF WindowLoop(candidate, Head(prev), 0, WindowRange(Head(prev), candidate))
         THEN TRUE
         ELSE PrevLoop(candidate, Tail(prev))

is_redundant(cands, candidate, prev, mininum_length) ==
    LET c1 == Lookup(cands, candidate)
        form == LexicalForm(c1, candidate)
    IN  IF Len(form) < mininum_length THEN [ret |-> FALSE, cands |-> c1]
        ELSE LET c2 == LookupAll(c1, prev)
                 forms == [x \in 1..Len(prev) |-> LexicalForm(c2, prev[x])]
             IN  [ret |-> PrevLoop(form, forms), cands |-> c2]

WeightOf(ws, k) == ws[CHOOSE x \in 1..Len(ws) : ws[x].key = k].w

\* An insertion that puts the key before the keys of equal weight.
RECURSIVE InsertBeforeTies(_, _, _)
InsertBeforeTies(ws, sorted, k) ==
    IF sorted = <<>> THEN <<k>>
    ELSE IF WeightOf(ws, Head(sorted)) > WeightOf(ws, k)
         THEN <<Head(sorted)>> \o InsertBeforeTies(ws, Tail(sorted), k)
         ELSE <<k>> \o sorted

\* The place of key k in a list sorted by descending weight: behind the keys
\* of greater or equal weight, which keeps the sort stable.
RECURSIVE InsertDesc(_, _, _)
InsertDesc(ws, sorted, k) ==
    IF sorted = <<>> THEN <<k>>
    ELSE IF WeightOf(ws, Head(sorted)) >= WeightOf(ws, k)
         THEN <<Head(sorted)>> \o InsertDesc(ws, Tail(sorted), k)
         ELSE <<k>> \o sorted

\* sorted(self.weights, key=self.weights.get, reverse=True)
RECURSIVE SortedDesc(_, _, _)
SortedDesc(ws, x, sorted) ==
    IF x > Len(ws) THEN sorted
    ELSE SortedDesc(ws, x + 1, InsertDesc(ws, sorted, ws[x].key))

\* The loop over best with redundancy removal.
RECURSIVE NonRedundantLoop(_, _, _, _)
NonRedundantLoop(cands, best, non_redundant_best, n) ==
    IF best = <<>> THEN [best |-> non_redundant_best, cands |-> cands]
    ELSE LET r == is_redundant(cands, Head(best), non_redundant_best, 1)
         IN  IF r.ret
             THEN NonRedundantLoop(r.cands, Tail(best), non_redundant_best, n)
             ELSE IF Len(non_redundant_best) + 1 >= n
                  THEN [best |-> Append(non_redundant_best, Head(best)),
                        cands |-> r.cands]
                  ELSE NonRedundantLoop(r.cands, Tail(best),
                                        Append(non_redundant_best, Head(best)), n)

\* [(' '.join(self.candidates[u].surface_forms[0]).lower(), self.weights[u]) ...]
RECURSIVE SurfacePairs(_, _, _, _)
SurfacePairs(cands, ws, ks, out) ==
    IF ks = <<>> THEN [ret |-> out, cands |-> cands, fault |-> "none"]
    ELSE LET c1 == Lookup(cands, Head(ks))
             v == c1[IndexOf(c1, Head(ks))]
         IN  IF v.surface_forms = <<>>
             THEN [ret |-> <<>>, cands |-> c1, fault |-> "IndexError"]
             ELSE SurfacePairs(c1, ws, Tail(ks),
                               Append(out, <<lower(Join(v.surface_forms[1])),
                                             WeightOf(ws, Head(ks))>>))

get_n_best(cands, ws, n, redundancy_removal, stemming) ==
    LET sorted == SortedDesc(ws, 1, <<>>)
        nr == IF redundancy_removal THEN NonRedundantLoop(cands, sorted, <<>>, n)
              ELSE [best |-> sorted, cands |-> cands]
        top == Slice(nr.best, 0, Min(n, Len(nr.best)))
        r == IF stemming
             THEN [ret |-> [x \in 1..Len(top) |-> <<top[x], WeightOf(ws, top[x])>>],
                   cands |-> nr.cands, fault |-> "none"]
             ELSE SurfacePairs(nr.cands, ws, top, <<>>)
    IN  [ret |-> r.ret, cands |-> r.cands, fault |-> r.fault,
         warned |-> (r.fault = "none" /\ Len(r.ret) < n)]

(***************************************************************************)
(* _populate_sentences.  A Python list that stands where a Sentence is     *)
(* expected is the record [list |-> its elements], so that reading an      *)
(* attribute of it can be told from reading one of a Sentence.             *)
(***************************************************************************)
\* Sentence(words=...): pos and stems start empty.
NewSentence(words) ==
    [words |-> words, pos |-> <<>>, stems |-> <<>>, length |-> Len(words)]

PyList(xs) == [list |-> xs]

\* Stemmer(stemmer).stem, the stemmer of nltk: lowercases, strips the suffix.
Stem(word) ==
    IF lower(word) = <<"d", "o", "g", "s">> THEN <<"d", "o", "g">> ELSE lower(word)

\* The body of the loop for one parsed sentence, up to the lowercasing: the
\* element of self.sentences it leaves, and whether stems is the very list
\* words (stems = words makes the two names one list).
PopulateOne(sentence, stemmer, use_lemmas) ==
    LET s1 == [NewSentence(sentence.words) EXCEPT !.pos = sentence.POS]
    IN  IF use_lemmas
        THEN IF "lemmas" \in DOMAIN sentence
             THEN [elem |-> [s1 EXCEPT !.stems = sentence.lemmas], shared |-> FALSE]
             ELSE [elem |-> s1, shared |-> FALSE]
        ELSE IF stemmer # "None"
             THEN [elem |-> PyList([x \in 1..Len(s1.words) |-> Stem(s1.words[x])]),
                   shared |-> FALSE]
             ELSE [elem |-> [s1 EXCEPT !.stems = s1.words], shared |-> TRUE]

\* for j, stem in enumerate(self.sentences[i].stems):
\*     self.sentences[i].stems[j] = stem.lower()
Lowercased(one) ==
    LET low == [x \in 1..Len(one.elem.stems) |-> lower(one.elem.stems[x])]
    IN  IF one.shared THEN [one.elem EXCEPT !.stems = low, !.words = low]
        ELSE [one.elem EXCEPT !.stems = low]

\* for i, sentence in enumerate(parsed_content.sentences)
RECURSIVE PopulateLoop(_, _, _, _)
PopulateLoop(sents, parsed, stemmer, use_lemmas) ==
    IF parsed = <<>> THEN [sentences |-> sents, fault |-> "none"]
    ELSE LET one == PopulateOne(Head(parsed), stemmer, use_lemmas)
         IN  IF "stems" \notin DOMAIN one.elem
             THEN [sentences |-> Append(sents, one.elem), fault |-> "AttributeError"]
             ELSE PopulateLoop(Append(sents, Lowercased(one)), Tail(parsed),
                               stemmer, use_lemmas)

_populate_sentences(sents, parsed, stemmer, use_lemmas) ==
    PopulateLoop(sents, parsed, stemmer, use_lemmas)

(***************************************************************************)
(* Documents: the sentence lists the readers can hand to the model, built  *)
(* from a vocabulary of tokens (word, stem, POS tag).                      *)
(***************************************************************************)
W_Dogs == <<"D", "o", "g", "s">>
W_dogs == <<"d", "o", "g", "s">>
W_dog == <<"d", "o", "g">>
W_run == <<"r", "u", "n">>
W_A == <<"A">>
W_a == <<"a">>
W_dash == <<"-">>
W_x_y == <<"x", "-", "y">>
W_a_b == <<"a", "_", "b">>

T_Dogs == [w |-> W_Dogs, s |-> W_dog, p |-> "NNS"]
T_dog == [w |-> W_dog, s |-> W_dog, p |-> "NN"]
T_run == [w |-> W_run, s |-> W_run, p |-> "VB"]
T_A == [w |-> W_A, s |-> W_a, p |-> "DT"]
T_dash == [w |-> W_dash, s |-> W_dash, p |-> ":"]
T_x_y == [w |-> W_x_y, s |-> W_x_y, p |-> "JJ"]
T_a_b == [w |-> W_a_b, s |-> W_a_b, p |-> "NN"]

GenVocab == {T_Dogs, T_dog, T_run}

\* The document the filter is exercised on: "Dogs dog A" and "- x-y a_b".
FilterDoc == <<Sentence(<<T_Dogs, T_dog, T_A>>), Sentence(<<T_dash, T_x_y, T_a_b>>)>>

TokSeqs(vocab, t) == UNION {[1..m -> vocab] : m \in 0..t}

\* The documents of exactly s sentences and at most t tokens in all.
RECURSIVE DocsOf(_, _, _)
DocsOf(vocab, s, t) ==
    IF s = 0 THEN {<<>>}
    ELSE UNION {{<<Sentence(x)>> \o d : d \in DocsOf(vocab, s - 1, t - Len(x))}
                : x \in TokSeqs(vocab, t)}

Docs(vocab, maxSents, t) == UNION {DocsOf(vocab, s, t) : s \in 0..maxSents}

PosTags(vocab) == {tok.p : tok \in vocab}

Stems(vocab) == {tok.s : tok \in vocab}

(***************************************************************************)
(* Actions: one per operation of LoadFile.                                 *)
(***************************************************************************)
NgramSelection(n) ==
    /\ candidates' = ngram_selection(sentences, candidates, n)
    /\ pre' = candidates
    /\ last' = [op |-> "ngram", n |-> n]
    /\ fault' = "none"
    /\ ret' = <<>>
    /\ warned' = FALSE
    /\ steps' = steps + 1
    /\ UNCHANGED <<sentences, weights>>

\* longest_sequence_selection called with a key that reads the attribute attr.
LongestSequenceSelection(attr, valid_values) ==
    LET r == longest_sequence_selection(sentences, candidates, attr, valid_values)
    IN  /\ candidates' = r.cands
        /\ fault' = r.fault
        /\ pre' = candidates
        /\ last' = [op |-> "longest_sequence", attr |-> attr, valid |-> valid_values]
        /\ ret' = <<>>
        /\ warned' = FALSE
        /\ steps' = steps + 1
        /\ UNCHANGED <<sentences, weights>>

LongestPosSequenceSelection(valid_pos) ==
    LET r == longest_pos_sequence_selection(sentences, candidates, valid_pos)
    IN  /\ candidates' = r.cands
        /\ fault' = r.fault
        /\ pre' = candidates
        /\ last' = [op |-> "longest_pos", attr |-> "pos", valid |-> valid_pos]
        /\ ret' = <<>>
        /\ warned' = FALSE
        /\ steps' = steps + 1
        /\ UNCHANGED <<sentences, weights>>

LongestKeywordSequenceSelection(keywords) ==
    LET r == longest_keyword_sequence_selection(sentences, candidates, keywords)
    IN  /\ candidates' = r.cands
        /\ fault' = r.fault
        /\ pre' = candidates
        /\ last' = [op |-> "longest_keyword", attr |-> "stem", valid |-> keywords]
        /\ ret' = <<>>
        /\ warned' = FALSE
        /\ steps' = steps + 1
        /\ UNCHANGED <<sentences, weights>>

\* add_candidate called with the span [a, b) of sentence i, b = a included.
AddCandidate(i, a, b) ==
    LET c == SpanCall(sentences, i, a, b, Shift(sentences, i) + a)
    IN  /\ candidates' = add_candidate(candidates, c.words, c.stems, c.pos,
                                       c.offset, c.sentence_id)
        /\ pre' = candidates
        /\ last' = [op |-> "add", call |-> c]
        /\ fault' = "none"
        /\ ret' = <<>>
        /\ warned' = FALSE
        /\ steps' = steps + 1
        /\ UNCHANGED <<sentences, weights>>

CandidateFiltering(cfg) ==
    LET r == candidate_filtering(candidates, cfg)
    IN  /\ candidates' = r.cands
        /\ fault' = r.fault
        /\ pre' = candidates
        /\ last' = [op |-> "filter", cfg |-> cfg]
        /\ ret' = <<>>
        /\ warned' = FALSE
        /\ steps' = steps + 1
        /\ UNCHANGED <<sentences, weights>>

\* The weighting done outside this class: self.weights is set once.
AssignWeights(ws) ==
    /\ weights' = ws
    /\ pre' = candidates
    /\ last' = [op |-> "weights"]
    /\ fault' = "none"
    /\ ret' = <<>>
    /\ warned' = FALSE
    /\ steps' = steps + 1
    /\ UNCHANGED <<sentences, candidates>>

IsRedundant(candidate, prev, mininum_length) ==
    LET r == is_redundant(candidates, candidate, prev, mininum_length)
    IN  /\ candidates' = r.cands
        /\ ret' = r.ret
        /\ pre' = candidates
        /\ last' = [op |-> "is_redundant", candidate |-> candidate, prev |-> prev,
                    mininum_length |-> mininum_length]
        /\ fault' = "none"
        /\ warned' = FALSE
        /\ steps' = steps + 1
        /\ UNCHANGED <<sentences, weights>>

GetNBest(n, redundancy_removal, stemming) ==
    LET r == get_n_best(candidates, weights, n, redundancy_removal, stemming)
    IN  /\ candidates' = r.cands
        /\ ret' = r.ret
        /\ fault' = r.fault
        /\ warned' = r.warned
        /\ pre' = candidates
        /\ last' = [op |-> "get_n_best", n |-> n,
                    redundancy_removal |-> redundancy_removal,
                    stemming |-> stemming]
        /\ steps' = steps + 1
        /\ UNCHANGED <<sentences, weights>>

PopulateSentences(parsed, stemmer, use_lemmas) ==
    LET r == _populate_sentences(sentences, parsed, stemmer, use_lemmas)
    IN  /\ sentences' = r.sentences
        /\ fault' = r.fault
        /\ pre' = candidates
        /\ last' = [op |-> "populate", parsed |-> parsed, stemmer |-> stemmer,
                    use_lemmas |-> use_lemmas]
        /\ ret' = <<>>
        /\ warned' = FALSE
        /\ steps' = steps + 1
        /\ UNCHANGED <<candidates, weights>>

(***************************************************************************)
(* Specification of the generators: one generator run on a freshly loaded  *)
(* document; the run algorithm is also called with the key s.stems.        *)
(***************************************************************************)
Loaded(docs) ==
    /\ sentences \in docs
    /\ candidates = <<>>
    /\ weights = <<>>
    /\ pre = <<>>
    /\ last = [op |-> "load"]
    /\ fault = "none"
    /\ ret = <<>>
    /\ warned = FALSE
    /\ steps = 0

Init == Loaded(Docs(GenVocab, MaxSents, MaxTokens))

Next ==
    /\ steps = 0
    /\ \/ \E n \in 1..MaxN : NgramSelection(n)
       \/ \E v \in SUBSET PosTags(GenVocab) : LongestPosSequenceSelection(v)
       \/ \E kw \in SUBSET Stems(GenVocab) : LongestKeywordSequenceSelection(kw)
       \/ \E kw \in SUBSET Stems(GenVocab) : LongestSequenceSelection("stems", kw)

Spec == Init /\ [][Next]_vars

(***************************************************************************)
(* Specification of the filter: add_candidate calls on spans of the        *)
(* document, the empty span included, then one pass of the filter.         *)
(***************************************************************************)
MaxFilterAdds == 2

\* The defaults of candidate_filtering.
DefaultMininumLength == 3
DefaultMininumWordSize == 2
DefaultMaximumWordNumber == 5

FilterConfigs ==
    [stoplist : {{}, {W_dog}},
     mininum_length : {0, DefaultMininumLength},
     mininum_word_size : {DefaultMininumWordSize},
     valid_punctuation_marks : {<<"-">>, <<"_">>},
     maximum_word_number : {1, DefaultMaximumWordNumber},
     only_alphanum : BOOLEAN,
     pos_blacklist : {{}, {"NN"}}]

SpansOf(sents) ==
    {sp \in (0..(Len(sents) - 1)) \X (0..DocLen(sents)) \X (0..DocLen(sents)) :
        sp[2] <= sp[3] /\ sp[3] <= sents[sp[1] + 1].length}

InitFilter == Loaded({FilterDoc})

NextFilter ==
    /\ last.op \in {"load", "add"}
    /\ \/ /\ steps < MaxFilterAdds
          /\ \E sp \in SpansOf(sentences) : AddCandidate(sp[1], sp[2], sp[3])
       \/ \E cfg \in FilterConfigs : CandidateFiltering(cfg)

SpecFilter == InitFilter /\ [][NextFilter]_vars

(***************************************************************************)
(* Specification of the registry: any sequence of add_candidate calls,     *)
(* generator runs and filter passes on one document.                       *)
(***************************************************************************)
MaxRegOps == 3

DefaultConfig ==
    [stoplist |-> {}, mininum_length |-> DefaultMininumLength,
     mininum_word_size |-> DefaultMininumWordSize,
     valid_punctuation_marks |-> DefaultValidPunctuationMarks,
     maximum_word_number |-> DefaultMaximumWordNumber,
     only_alphanum |-> TRUE, pos_blacklist |-> {}]

RegFilterConfigs ==
    {DefaultConfig,
     [DefaultConfig EXCEPT !.mininum_length = 0],
     [DefaultConfig EXCEPT !.stoplist = {W_dog}, !.only_alphanum = FALSE],
     [DefaultConfig EXCEPT !.maximum_word_number = 1]}

InitReg == Loaded({FilterDoc})

NextReg ==
    /\ steps < MaxRegOps
    /\ \/ \E sp \in SpansOf(sentences) : AddCandidate(sp[1], sp[2], sp[3])
       \/ \E n \in 1..MaxN : NgramSelection(n)
       \/ \E v \in {{"NN"}, {"NN", "NNS", "JJ"}} : LongestPosSequenceSelection(v)
       \/ \E kw \in {{W_dog}} : LongestKeywordSequenceSelection(kw)
       \/ \E cfg \in RegFilterConfigs : CandidateFiltering(cfg)

SpecReg == InitReg /\ [][NextReg]_vars

(***************************************************************************)
(* Specification of the selector: the n-grams of a document are            *)
(* registered, then either is_redundant is called, or weights are assigned *)
(* and get_n_best is called.                                               *)
(***************************************************************************)
MaxWeighted == 3
MaxBest == 4
MaxPrev == 2
MaxMinLen == 2

W_runs == <<"r", "u", "n", "s">>
W_cat == <<"c", "a", "t">>

T_Runs == [w |-> <<"R", "u", "n", "s">>, s |-> W_runs, p |-> "VBZ"]

\* "Dogs Runs" and "dog run".
SelectDoc == <<Sentence(<<T_Dogs, T_Runs>>), Sentence(<<T_dog, T_run>>)>>

WeightValues == {3, 5}

\* The keys a caller may name: those of the registry and one that is not.
NamedKeys == Keys(candidates) \cup {W_cat}

\* The sequences of at most m distinct elements of S.
DistinctSeqs(S, m) ==
    {q \in UNION {[1..len -> S] : len \in 0..m} :
        \A x, y \in DOMAIN q : x # y => q[x] # q[y]}

WeightMaps ==
    UNION {{[x \in 1..Len(ks) |-> [key |-> ks[x], w |-> f[x]]] :
                f \in [1..Len(ks) -> WeightValues]}
           : ks \in DistinctSeqs(NamedKeys, MaxWeighted)}

InitSelect == Loaded({SelectDoc})

NextSelect ==
    \/ /\ last.op = "load"
       /\ \E n \in 1..MaxN : NgramSelection(n)
    \/ /\ last.op = "ngram"
       /\ \E ws \in WeightMaps : AssignWeights(ws)
    \/ /\ last.op = "ngram"
       /\ \E k \in NamedKeys, prev \in DistinctSeqs(NamedKeys, MaxPrev),
             m \in 0..MaxMinLen : IsRedundant(k, prev, m)
    \/ /\ last.op = "weights"
       /\ \E n \in 0..MaxBest, rr \in BOOLEAN, st \in BOOLEAN : GetNBest(n, rr, st)

SpecSelect == InitSelect /\ [][NextSelect]_vars

(***************************************************************************)
(* Specification of the ingestion: _populate_sentences on a parsed         *)
(* sentence stream, with or without lemmas, in each normalization mode.    *)
(***************************************************************************)
MaxParsedTokens == 2
MaxParsedSents == 2

\* Parsed tokens: word, lemma, POS tag.
ParsedVocab ==
    {[w |-> W_Dogs, l |-> <<"D", "o", "g">>, p |-> "NNS"],
     [w |-> W_run, l |-> W_run, p |-> "VB"]}

WithLemmas(toks) ==
    [words  |-> [x \in 1..Len(toks) |-> toks[x].w],
     POS    |-> [x \in 1..Len(toks) |-> toks[x].p],
     lemmas |-> [x \in 1..Len(toks) |-> toks[x].l]]

WithoutLemmas(toks) ==
    [words |-> [x \in 1..Len(toks) |-> toks[x].w],
     POS   |-> [x \in 1..Len(toks) |-> toks[x].p]]

ParsedSentences ==
    {WithLemmas(t) : t \in TokSeqs(ParsedVocab, MaxParsedTokens)}
    \cup {WithoutLemmas(t) : t \in TokSeqs(ParsedVocab, MaxParsedTokens)}

ParsedStreams == UNION {[1..len -> ParsedSentences] : len \in 0..MaxParsedSents}

InitPopulate == Loaded({<<>>})

NextPopulate ==
    /\ last.op = "load"
    /\ \E parsed \in ParsedStreams, stemmer \in {"porter", "None"},
          use_lemmas \in BOOLEAN : PopulateSentences(parsed, stemmer, use_lemmas)

SpecPopulate == InitPopulate /\ [][NextPopulate]_vars

(***************************************************************************)
(* What the claims speak of: the occurrences a registry holds, and the     *)
(* spans of a document, stated without the generators' loops.              *)
(***************************************************************************)
EntryOccs(e) ==
    [x \in 1..Len(e.surface_forms) |->
        [key |-> e.key, words |-> e.surface_forms[x], pos |-> e.pos_patterns[x],
         offset |-> e.offsets[x], sentence_id |-> e.sentence_ids[x]]]

RECURSIVE OccSeq(_)
OccSeq(cands) ==
    IF cands = <<>> THEN <<>> ELSE EntryOccs(Head(cands)) \o OccSeq(Tail(cands))

Count(seq, v) == Cardinality({x \in DOMAIN seq : seq[x] = v})

\* The number of tokens of the sentences before sentence i (0-based).
PrecedingLen(sents, i) == SumLen([x \in 1..i |-> sents[x].words])

\* The occurrence of the span [a, b) of sentence i, recorded at offset off.
OccOfSpan(sents, i, a, b, off) ==
    [key |-> Join(Slice(sents[i + 1].stems, a, b)),
     words |-> Slice(sents[i + 1].words, a, b),
     pos |-> Slice(sents[i + 1].pos, a, b),
     offset |-> off, sentence_id |-> i]

OccAtStart(sents, sp) ==
    OccOfSpan(sents, sp[1], sp[2], sp[3], PrecedingLen(sents, sp[1]) + sp[2])

NoOffset(o) == [key |-> o.key, words |-> o.words, pos |-> o.pos,
                sentence_id |-> o.sentence_id]

AllSpans(sents) ==
    {sp \in (0..(Len(sents) - 1)) \X (0..DocLen(sents)) \X (0..DocLen(sents)) :
        sp[2] < sp[3] /\ sp[3] <= Len(sents[sp[1] + 1].words)}

NgramSpans(sents, n) == {sp \in AllSpans(sents) : sp[3] <= sp[2] + n}

RECURSIVE NgramCount(_, _)
NgramCount(L, k) == IF k = 0 THEN 0 ELSE (L - k + 1) + NgramCount(L, k - 1)

RECURSIVE NgramTotal(_, _)
NgramTotal(sents, n) ==
    IF sents = <<>> THEN 0
    ELSE NgramCount(Len(Head(sents).words), Min(n, Len(Head(sents).words)))
         + NgramTotal(Tail(sents), n)

\* The maximal runs of tokens of sentence i whose value is in valid.
MaximalRuns(sents, attr, valid) ==
    {sp \in AllSpans(sents) :
        LET v == sents[sp[1] + 1][attr]
        IN  /\ \A x \in (sp[2] + 1)..sp[3] : v[x] \in valid
            /\ sp[2] = 0 \/ v[sp[2]] \notin valid
            /\ sp[3] = Len(v) \/ v[sp[3] + 1] \notin valid}

(***************************************************************************)
(* Claims on the generators.                                               *)
(***************************************************************************)
\* C1: ngram_selection(n) registers, per sentence of length L, exactly one
\* occurrence for each pair (j,k) with 0 <= j < k <= min(j+n, L) and nothing
\* else, that is sum over k=1..min(n,L) of (L-k+1) occurrences per sentence;
\* its surface form is the tokens [j,k), its sentence id the sentence's index
\* and its offset the length of the preceding sentences plus j.
C1_NgramExact ==
    last.op = "ngram" =>
        LET occ == OccSeq(candidates)
            spans == NgramSpans(sentences, last.n)
        IN  /\ fault = "none"
            /\ \A sp \in spans : Count(occ, OccAtStart(sentences, sp)) = 1
            /\ \A x \in DOMAIN occ : \E sp \in spans : occ[x] = OccAtStart(sentences, sp)
            /\ Len(occ) = NgramTotal(sentences, last.n)
            /\ \A x \in DOMAIN occ :
                   /\ occ[x].offset >= PrecedingLen(sentences, occ[x].sentence_id)
                   /\ occ[x].offset + Len(occ[x].words)
                        <= PrecedingLen(sentences, occ[x].sentence_id + 1)

\* A run of n-grams over two sentences, one longer than n and one shorter.
C1_Witness ==
    /\ last.op = "ngram"
    /\ last.n = 2
    /\ Len(sentences) = 2
    /\ sentences[1].length = 3
    /\ sentences[2].length = 1
    /\ Len(OccSeq(candidates)) = 6

\* C2: longest_sequence_selection registers exactly one occurrence per
\* maximal run of consecutive tokens whose key is valid, spanning the run's
\* first to last token, and nothing else: no sub-run and no span holding a
\* token whose key is invalid.
C2_LongestRunsExact ==
    last.op \in {"longest_pos", "longest_sequence"} =>
        LET occ == OccSeq(candidates)
            runs == MaximalRuns(sentences, last.attr, last.valid)
            want(r) == NoOffset(OccAtStart(sentences, r))
            got == [x \in DOMAIN occ |-> NoOffset(occ[x])]
        IN  /\ fault = "none"
            /\ Len(occ) = Cardinality(runs)
            /\ \A r \in runs :
                   Count(got, want(r)) = Cardinality({q \in runs : want(q) = want(r)})
            /\ \A x \in DOMAIN occ : \E r \in runs : got[x] = want(r)
            /\ \A x \in DOMAIN occ :
                   last.attr = "pos" =>
                       \A y \in DOMAIN occ[x].pos : occ[x].pos[y] \in last.valid

\* Tags [NN, NN, VB, NN] with the valid set {NN}: the spans [0,2) and [3,4).
C2_Witness ==
    /\ last.op = "longest_pos"
    /\ last.valid = {"NN"}
    /\ Len(sentences) = 1
    /\ sentences[1].pos = <<"NN", "NN", "VB", "NN">>
    /\ Len(OccSeq(candidates)) = 2

\* C3: every occurrence registered by longest_sequence_selection records the
\* offset (length of the preceding sentences) + (index of the first token of
\* its run), whatever triggers the flush.
C3_OffsetIsRunStart ==
    last.op \in {"longest_pos", "longest_sequence"} =>
        LET occ == OccSeq(candidates)
            runs == MaximalRuns(sentences, last.attr, last.valid)
        IN  /\ \A r \in runs : Count(occ, OccAtStart(sentences, r)) = 1
            /\ \A x \in DOMAIN occ : \E r \in runs : occ[x] = OccAtStart(sentences, r)

\* C4: longest_keyword_sequence_selection(keywords) completes and registers
\* what the generic run algorithm registers with the normalized forms as keys
\* and the keywords as the valid set.
C4_KeywordIsGenericOnStems ==
    last.op = "longest_keyword" =>
        /\ fault = "none"
        /\ candidates = longest_sequence_selection(sentences, pre, "stems", last.valid).cands

(***************************************************************************)
(* Claims on the filter.                                                   *)
(***************************************************************************)
\* The words the filter looks at: the first surface form, lowercased.
FirstWords(e) == [x \in 1..Len(e.surface_forms[1]) |-> lower(e.surface_forms[1][x])]

\* Rules (a) to (f) on the first surface form and the first POS pattern.
RulesAtoF(e, cfg) ==
    LET words == FirstWords(e)
    IN  \/ \E x \in DOMAIN words : words[x] \in cfg.stoplist
        \/ \E x \in DOMAIN e.pos_patterns[1] : e.pos_patterns[1][x] \in cfg.pos_blacklist
        \/ \E x \in DOMAIN words : \A y \in DOMAIN words[x] : words[x][y] \in punctuation
        \/ SumLen(words) < cfg.mininum_length
        \/ \E x \in DOMAIN words : Len(words[x]) < cfg.mininum_word_size
        \/ Len(e.lexical_form) > cfg.maximum_word_number

Removed(e) == e.key \notin Keys(candidates)

\* C7: with only_alphanum off, candidate_filtering removes a candidate if and
\* only if its first surface form (lowercased) or first POS pattern meets one
\* of the rules (a) to (f); later occurrences do not change the decision.
C7_RemovedIffRule ==
    (last.op = "filter" /\ ~last.cfg.only_alphanum) =>
        \A x \in DOMAIN pre : Removed(pre[x]) <=> RulesAtoF(pre[x], last.cfg)

\* The same decision rule on the passes that complete: it holds, so C7 fails
\* only where the pass raises.
C7_HoldsWhenPassCompletes ==
    (last.op = "filter" /\ ~last.cfg.only_alphanum /\ fault = "none") =>
        \A x \in DOMAIN pre : Removed(pre[x]) <=> RulesAtoF(pre[x], last.cfg)

\* The word without the characters of the configured punctuation marks.
StripMarks(word, marks) == SelectSeq(word, LAMBDA c : c \notin Elems(marks))

\* C8: with only_alphanum set, a candidate that survives rules (a) to (f) is
\* removed if and only if, after deleting every character of the configured
\* valid_punctuation_marks from each word of its first surface form, some
\* word is not purely alphanumeric.
C8_AlphanumUsesConfiguredMarks ==
    (last.op = "filter" /\ last.cfg.only_alphanum /\ fault = "none") =>
        \A x \in DOMAIN pre :
            ~RulesAtoF(pre[x], last.cfg) =>
                (Removed(pre[x]) <=>
                    \E y \in DOMAIN FirstWords(pre[x]) :
                        ~isalnum(StripMarks(FirstWords(pre[x])[y],
                                            last.cfg.valid_punctuation_marks)))

\* C9: candidate_filtering on a registry holding a candidate whose first
\* surface form has zero words completes without a fault and removes that
\* candidate, for every configuration, a minimum total length of 0 included.
C9_ZeroWordDiscarded ==
    last.op = "filter" =>
        \A x \in DOMAIN pre :
            pre[x].surface_forms[1] = <<>> => (fault = "none" /\ Removed(pre[x]))

(***************************************************************************)
(* Claims on the registry.                                                 *)
(***************************************************************************)
OccLists(e) == <<e.surface_forms, e.offsets, e.sentence_ids, e.pos_patterns>>

AlignedEntry(e) ==
    /\ Len(e.surface_forms) >= 1
    /\ \A x \in 1..4 : Len(OccLists(e)[x]) = Len(e.surface_forms)
    /\ \A x \in DOMAIN e.surface_forms : Len(e.surface_forms[x]) = Len(e.lexical_form)

\* The four lists of entry e are those of entry old with the call c appended.
Appended(e, old, c) ==
    OccLists(e) = <<Append(old.surface_forms, c.words), Append(old.offsets, c.offset),
                    Append(old.sentence_ids, c.sentence_id),
                    Append(old.pos_patterns, c.pos)>>

\* C10: after any sequence of add_candidate calls, generator runs and filter
\* passes, every candidate has four occurrence lists of one length >= 1 and
\* a lexical form of as many tokens as each surface form; an add_candidate
\* call creates the entry if its key is new and lengthens each of the four
\* lists of that entry by one, also for a repeated occurrence, and leaves
\* every other entry as it was.
C10_RegistryAligned ==
    /\ \A x \in DOMAIN candidates : AlignedEntry(candidates[x])
    /\ last.op = "add" =>
        LET k == Join(last.call.stems)
        IN  /\ k \in Keys(candidates)
            /\ Keys(candidates) = Keys(pre) \cup {k}
            /\ Len(candidates) = Cardinality(Keys(candidates))
            /\ \A x \in DOMAIN pre : pre[x].key # k => candidates[x] = pre[x]
            /\ \A x \in DOMAIN candidates :
                   candidates[x].key = k =>
                       /\ candidates[x].lexical_form = last.call.stems
                       /\ IF k \in Keys(pre)
                          THEN x \in DOMAIN pre /\ pre[x].key = k
                               /\ Appended(candidates[x], pre[x], last.call)
                          ELSE x = Len(pre) + 1
                               /\ Appended(candidates[x], Candidate(k), last.call)

\* The same two-word occurrence registered a second time.
C10_Witness ==
    /\ last.op = "add"
    /\ \E x \in DOMAIN pre :
           /\ pre[x].key = Join(last.call.stems)
           /\ pre[x].surface_forms = <<last.call.words>>
           /\ pre[x].offsets = <<last.call.offset>>
           /\ Len(candidates[x].offsets) = 2
           /\ Len(last.call.words) = 2

(***************************************************************************)
(* Claims on the selector.                                                 *)
(***************************************************************************)
\* The token sequence t is a contiguous window of the token sequence f.
IsWindowOf(t, f) ==
    \E a \in 0..Len(f) :
        /\ a + Len(t) <= Len(f)
        /\ \A y \in 1..Len(t) : f[a + y] = t[y]

Registered(ks) == \A x \in DOMAIN ks : ks[x] \in Keys(pre)

\* C5: for a registered target and registered accepted candidates,
\* is_redundant is true if and only if the target has at least m tokens and
\* some accepted lexical form holds the target's tokens as a contiguous
\* window, token for token.
C5_RedundantIffWindow ==
    (last.op = "is_redundant" /\ Registered(<<last.candidate>> \o last.prev)) =>
        LET t == LexicalForm(pre, last.candidate)
        IN  /\ fault = "none"
            /\ ret = (/\ Len(t) >= last.mininum_length
                      /\ \E x \in DOMAIN last.prev :
                             IsWindowOf(t, LexicalForm(pre, last.prev[x])))

\* "run" against the accepted "dog runs", then "dog run": the second holds it
\* as its last window, the first only as a substring of its characters.
C5_Witness ==
    /\ last.op = "is_redundant"
    /\ last.candidate = W_run
    /\ last.prev = <<Join(<<W_dog, W_runs>>), Join(<<W_dog, W_run>>)>>
    /\ last.mininum_length = 1
    /\ Registered(<<last.candidate>> \o last.prev)
    /\ ret = TRUE

\* The number of weighted candidates that come before the x-th one: those of
\* greater weight, and those of equal weight inserted earlier.
Rank(x) ==
    Cardinality({y \in DOMAIN weights :
                    \/ weights[y].w > weights[x].w
                    \/ weights[y].w = weights[x].w /\ y < x})

\* The text get_n_best renders for key k.
Rendered(k) ==
    IF last.stemming THEN k
    ELSE lower(Join(pre[IndexOf(pre, k)].surface_forms[1]))

\* C6: for weights on registered candidates and n >= 0, get_n_best without
\* redundancy removal returns min(n, number of weighted candidates) pairs in
\* non-increasing weight order, equal weights in insertion order, no omitted
\* candidate heavier than a returned one, and warns exactly when it returns
\* fewer than n pairs.
C6_NBestOrder ==
    (/\ last.op = "get_n_best"
     /\ ~last.redundancy_removal
     /\ Registered([x \in DOMAIN weights |-> weights[x].key])) =>
        LET m == Min(last.n, Len(weights))
        IN  /\ fault = "none"
            /\ Len(ret) = m
            /\ \A x \in DOMAIN weights :
                   Rank(x) < m =>
                       ret[Rank(x) + 1] = <<Rendered(weights[x].key), weights[x].w>>
            /\ \A x, y \in 1..m : x < y => ret[x][2] >= ret[y][2]
            /\ \A x \in DOMAIN weights :
                   Rank(x) >= m => \A y \in 1..m : weights[x].w <= ret[y][2]
            /\ warned = (Len(ret) < last.n)

\* Weights 3, 5, 5 in this order and n = 2: the two of weight 5, as inserted.
C6_Witness ==
    /\ last.op = "get_n_best"
    /\ ~last.redundancy_removal
    /\ ~last.stemming
    /\ last.n = 2
    /\ Registered([x \in DOMAIN weights |-> weights[x].key])
    /\ [x \in DOMAIN weights |-> weights[x].w] = <<3, 5, 5>>
    /\ Len(ret) = 2
    /\ ~warned

\* C12: is_redundant and get_n_best only read the registry: for every weight
\* mapping, one naming a key that is not registered included, and every
\* setting of redundancy_removal and stemming, the registry after the call is
\* the registry before it; no lookup creates an empty entry.
C12_SelectorOnlyReads ==
    last.op \in {"is_redundant", "get_n_best"} =>
        /\ candidates = pre
        /\ \A x \in DOMAIN candidates : candidates[x].surface_forms # <<>>

\* The registry is left as it was when every key named is registered.
C12_HoldsForRegisteredKeys ==
    /\ (last.op = "is_redundant" /\ Registered(<<last.candidate>> \o last.prev))
           => candidates = pre
    /\ (last.op = "get_n_best" /\ Registered([x \in DOMAIN weights |-> weights[x].key]))
           => candidates = pre

(***************************************************************************)
(* Claims on the ingestion.                                                *)
(***************************************************************************)
IsSentence(e) == DOMAIN e = {"words", "pos", "stems", "length"}

\* C11: after _populate_sentences, in each normalization mode (lemmas, a
\* stemmer, no stemmer), the ingestion has completed without a fault and
\* every element of the sentence list is a Sentence whose words, POS tags
\* and normalized forms have one length, every normalized form lowercased.
C11_PopulatedAligned ==
    last.op = "populate" =>
        /\ fault = "none"
        /\ Len(sentences) = Len(last.parsed)
        /\ \A x \in DOMAIN sentences :
               /\ IsSentence(sentences[x])
               /\ Len(sentences[x].pos) = Len(sentences[x].words)
               /\ Len(sentences[x].stems) = Len(sentences[x].words)
               /\ \A y \in DOMAIN sentences[x].stems :
                      sentences[x].stems[y] = lower(sentences[x].stems[y])

\* The same with no stemmer (stemmer None), or with lemmas that the parsed
\* stream has: these two modes complete and leave aligned sentences.
C11_HoldsWithoutStemmer ==
    (/\ last.op = "populate"
     /\ IF last.use_lemmas
        THEN \A x \in DOMAIN last.parsed : "lemmas" \in DOMAIN last.parsed[x]
        ELSE last.stemmer = "None") =>
        /\ fault = "none"
        /\ Len(sentences) = Len(last.parsed)
        /\ \A x \in DOMAIN sentences :
               /\ IsSentence(sentences[x])
               /\ Len(sentences[x].pos) = Len(sentences[x].words)
               /\ Len(sentences[x].stems) = Len(sentences[x].words)
               /\ \A y \in DOMAIN sentences[x].stems :
                      sentences[x].stems[y] = lower(sentences[x].stems[y])

====
